---- MODULE Spec2Model ----
(***************************************************************************)
(* A model of the ai_agent core of erpnext-agent:                          *)
(*   - agent.py: _fastpath, _normalize_steps, classify_and_plan, execute,  *)
(*     smart_execute                                                       *)
(*   - llm_client.py: LLMClient (circuit breaker, tenacity retry,          *)
(*     streamed completions)                                               *)
(*   - router.py: route (domain, dimension, date window, top-N) and        *)
(*     execute_routed (the tool calls made and the result returned)        *)
(*                                                                         *)
(* Python dicts are TLA+ functions whose DOMAIN is the set of keys that    *)
(* are present, so dict.get(k, default) is Get(d, k, default).  A command  *)
(* text is the sequence of its lower-case words.  Dates are <<y, m, d>>.   *)
(* Wall-clock time (time.time()) is in whole seconds, measured from the    *)
(* construction of the LLMClient instance that is in use.                  *)
(***************************************************************************)
EXTENDS Integers, Sequences, FiniteSets, TLC

---------------------------------------------------------------------------
(* Bounds of the model.                                                    *)
MaxWords == 3          \* longest command text, in words
MaxShort == 2          \* longest freely composed step list of a model reply
MaxLong == 9           \* longest (uniform) step list of a model reply
MaxCompletes == 3      \* complete() calls made on one long-lived client
MaxCommands == 2       \* Commands executed
MaxBurst == 4          \* Commands executed back to back in a burst
MaxClock == 3          \* latest wall-clock second of the concurrent calls
MaxPhrases == 3        \* phrases in a query to the router
MaxFragments == 2      \* fragments of a streamed completion

(* Program constants.                                                      *)
MaxPlanSteps == 8      \* agent.py:102      steps[:8]
TrailingMonths == 12   \* agent.py:23       _last_n_month_range(n=12)
MaxDay == 28           \* agent.py:21       min(d.day, 28)
WindowSecs == 90       \* llm_client.py:42  now - t < 90
FailThreshold == 3     \* llm_client.py:43  len(window) >= 3
RecentSecs == 30       \* llm_client.py:43  now - window[-1] < 30
MaxAttempts == 3       \* llm_client.py:69  stop_after_attempt(3)
WaitMin == 1           \* llm_client.py:68  wait_exponential(min=1)
WaitMax == 10          \* llm_client.py:68  wait_exponential(max=10)

---------------------------------------------------------------------------
(* Dict helpers.                                                           *)
EmptyDict == [k \in {} |-> 0]

Get(d, k, default) == IF k \in DOMAIN d THEN d[k] ELSE default

Min(a, b) == IF a <= b THEN a ELSE b

Max(a, b) == IF a >= b THEN a ELSE b

---------------------------------------------------------------------------
(* agent.py: the tool catalog.                                             *)
READ_ONLY_TOOLS ==
    {"get_sales_stats", "get_purchase_stats", "get_inventory_snapshot",
     "run_sql", "run_report"}

\* The tools execute passes idempotency_key=idem to (agent.py:118-127, 138-139).
KeyedTools ==
    {"create_doctype", "update_doctype", "create_workflow",
     "create_query_report", "create_script_report", "create_task"}

\* Every tool name execute's if/elif chain dispatches (agent.py:118-141).
DispatchTools == READ_ONLY_TOOLS \cup KeyedTools \cup {"enqueue_background_job"}

MutatingTools == DispatchTools \ READ_ONLY_TOOLS

---------------------------------------------------------------------------
(* agent.py: date helpers.                                                 *)
add_months(d, months) ==
    LET y == d[1] + ((d[2] - 1 + months) \div 12)
        m == ((d[2] - 1 + months) % 12) + 1
    IN  <<y, m, Min(d[3], MaxDay)>>

last_n_month_range(t, n) ==
    LET start == add_months(<<t[1], t[2], 1>>, -(n - 1))
    IN  <<start, t>>

---------------------------------------------------------------------------
(* Argument values.  The JSON value under "args" is a mapping, a non-empty *)
(* array or a non-empty string; a mapping is kept as a dict.               *)
ArgsMap(m) == [k |-> "map", m |-> m]

ArgsList == [k |-> "list", m |-> EmptyDict]

ArgsStr == [k |-> "str", m |-> EmptyDict]

DateArgs(by, f, t) == ArgsMap([by |-> by, from_date |-> f, to_date |-> t])

SalesStep(by, t) ==
    LET r == last_n_month_range(t, TrailingMonths)
    IN  [tool |-> "get_sales_stats", args |-> DateArgs(by, r[1], r[2])]

---------------------------------------------------------------------------
(* agent.py: _fastpath.  re.search(r"(best|top|highest).*(selling|sales)   *)
(* .*(month)") on a text of words: three words in that order, anything in  *)
(* between; '"top customers" in lc' is two adjacent words.                 *)
HasPhrase(cmd, ws) ==
    \E i \in 1..(Len(cmd) - Len(ws) + 1) :
        \A j \in 1..Len(ws) : cmd[i + j - 1] = ws[j]

BestMonthRegex(cmd) ==
    \E i, j, k \in 1..Len(cmd) :
        /\ i < j
        /\ j < k
        /\ cmd[i] \in {"best", "top", "highest"}
        /\ cmd[j] \in {"selling", "sales"}
        /\ cmd[k] = "month"

\* Mutant: every fast path groups by month.
FastBranchMonthOnly(cmd) ==
    IF \/ BestMonthRegex(cmd)
       \/ HasPhrase(cmd, <<"top", "customers">>)
       \/ HasPhrase(cmd, <<"top", "items">>)
       \/ HasPhrase(cmd, <<"best", "sellers">>)
    THEN "month"
    ELSE "none"

FastBranch(cmd) ==
    IF BestMonthRegex(cmd) \/ HasPhrase(cmd, <<"best", "selling", "month">>)
    THEN "month"
    ELSE IF HasPhrase(cmd, <<"top", "customers">>)
    THEN "customer"
    ELSE IF HasPhrase(cmd, <<"top", "items">>) \/ HasPhrase(cmd, <<"best", "sellers">>)
    THEN "item"
    ELSE "none"

FastRisks(by) ==
    IF by = "month" THEN <<"Assumes last 12 months; adjust if needed.">> ELSE <<>>

\* The plan _fastpath returns; only used where FastBranch(cmd) # "none".
fastpath(cmd, t) ==
    [intent |-> "analytics",
     steps |-> <<SalesStep(FastBranch(cmd), t)>>,
     confirm_required |-> FALSE,
     risks |-> FastRisks(FastBranch(cmd))]

---------------------------------------------------------------------------
(* agent.py: _normalize_steps.  A step here is a JSON object that passed   *)
(* the filter of classify_and_plan, so it has a non-empty "tool".          *)
IsDateTool(tool) == tool \in {"get_sales_stats", "get_purchase_stats"}

\* (s.get("args") or {}): a missing "args" is the empty mapping.
StepArgs(d) == Get(d, "args", ArgsMap(EmptyDict))

\* Mutant: the default is assigned whether or not the key is present.
setdefaultAssigns(m, k, v) ==
    [x \in (DOMAIN m) \cup {k} |-> IF x = k THEN v ELSE m[x]]

\* dict.setdefault(k, v)
setdefault(m, k, v) ==
    IF k \in DOMAIN m
    THEN m
    ELSE [x \in (DOMAIN m) \cup {k} |-> IF x = k THEN v ELSE m[x]]

FillDefaults(m, t) ==
    LET r == last_n_month_range(t, TrailingMonths)
    IN  setdefault(setdefault(setdefault(m, "by", "month"),
                              "from_date", r[1]),
                   "to_date", r[2])

\* str has no .copy(); list has .copy() but no .setdefault(): AttributeError.
NormRaises(d) ==
    \/ StepArgs(d).k = "str"
    \/ StepArgs(d).k = "list" /\ IsDateTool(d.tool)

NormStep(d, t) ==
    [tool |-> d.tool,
     args |-> IF IsDateTool(d.tool)
              THEN ArgsMap(FillDefaults(StepArgs(d).m, t))
              ELSE StepArgs(d)]

normalize_steps(ds, t) == [i \in 1..Len(ds) |-> NormStep(ds[i].d, t)]

---------------------------------------------------------------------------
(* agent.py: classify_and_plan, the part after llm.complete returned.      *)
(* A reply is the text of the backend: not JSON, JSON that is no object,   *)
(* or an object; the value under "steps" is null, a string or an array     *)
(* whose elements are objects, or strings.                                 *)
FallbackPlan(t) ==
    [intent |-> "analytics",
     steps |-> <<SalesStep("month", t)>>,
     confirm_required |-> FALSE,
     risks |-> <<"planner_fallback">>]

\* Mutant: '"tool" in s' instead of s.get("tool").
KeepStepAnyTool(s) == s.t = "dict" /\ "tool" \in DOMAIN s.d

\* isinstance(s, dict) and s.get("tool")
KeepStep(s) == s.t = "dict" /\ Get(s.d, "tool", "") # ""

\* Iterating a JSON string yields its characters: none is a dict.
Kept(stepsv) ==
    IF stepsv.t = "list" THEN SelectSeq(stepsv.v, KeepStep) ELSE <<>>

PlanRaises(r) ==
    \/ r.kind # "object"
    \/ "steps" \notin DOMAIN r.obj
    \/ r.obj.steps.t = "null"
    \/ \E i \in 1..Len(Kept(r.obj.steps)) : NormRaises(Kept(r.obj.steps)[i].d)

parse_plan(r, t) ==
    IF PlanRaises(r)
    THEN FallbackPlan(t)
    ELSE [k \in DOMAIN r.obj |->
            IF k = "steps"
            THEN normalize_steps(Kept(r.obj.steps), t)
            ELSE r.obj[k]]

---------------------------------------------------------------------------
(* The inputs the model draws.                                             *)
Vocabulary == {"best", "top", "selling", "month", "customers", "items", "sellers"}

Commands == UNION {[1..n -> Vocabulary] : n \in 0..MaxWords}

\* One command per branch of _fastpath, and one that matches none.
ExecCommands ==
    {<<"best", "selling", "month">>, <<"top", "customers">>,
     <<"best", "sellers">>, <<"customers">>}

Todays == {<<2024, 3, 15>>, <<2024, 12, 31>>}

Tokens == {"", "yes"}

\* The days the router is asked on: in March of a leap year, on the last
\* day of a year, in January.
RouterTodays == {<<2024, 3, 15>>, <<2024, 12, 31>>, <<2025, 1, 10>>}

\* The confirm_token values that come in through plan_and_execute: none,
\* and two different non-empty ones.
ApiTokens == {"", "yes", "no"}

\* A JSON array under "intent": list is unhashable, 'intent in {...}' raises.
UnhashableIntent == "<array>"

Intents == {"analytics", "structural_change", UnhashableIntent}

JStr == [t |-> "str", d |-> EmptyDict]

JObj(d) == [t |-> "dict", d |-> d]

StepVals ==
    { JStr,
      JObj([args |-> ArgsMap(EmptyDict)]),
      JObj([tool |-> "", args |-> ArgsMap(EmptyDict)]),
      JObj([tool |-> "get_sales_stats"]),
      JObj([tool |-> "get_purchase_stats", args |-> ArgsMap([by |-> "supplier"])]),
      JObj([tool |-> "create_task", args |-> ArgsMap([subject |-> "s"])]),
      JObj([tool |-> "create_task", args |-> ArgsList]),
      JObj([tool |-> "export_pdf", args |-> ArgsMap(EmptyDict)]),
      JObj([tool |-> "get_sales_stats", args |-> ArgsStr]) }

LongSteps ==
    { JObj([tool |-> "get_sales_stats"]),
      JObj([tool |-> "enqueue_background_job", args |-> ArgsMap(EmptyDict)]) }

StepLists ==
    (UNION {[1..n -> StepVals] : n \in 0..MaxShort})
    \cup {[i \in 1..n |-> s] : n \in MaxPlanSteps..MaxLong, s \in LongSteps}

StepsValues ==
    {[t |-> "null", v |-> <<>>], [t |-> "str", v |-> <<>>]}
    \cup {[t |-> "list", v |-> l] : l \in StepLists}

Heads ==
    {EmptyDict}
    \cup {[intent |-> i] : i \in Intents}
    \cup {[confirm_required |-> c] : c \in BOOLEAN}
    \cup {[intent |-> i, confirm_required |-> c] : i \in Intents, c \in BOOLEAN}

WithSteps(h, sv) ==
    [k \in (DOMAIN h) \cup {"steps"} |-> IF k = "steps" THEN sv ELSE h[k]]

Replies ==
    {[kind |-> "notjson", obj |-> EmptyDict], [kind |-> "nonobject", obj |-> EmptyDict]}
    \cup {[kind |-> "object", obj |-> h] : h \in Heads}
    \cup {[kind |-> "object", obj |-> WithSteps(h, sv)] : h \in Heads, sv \in StepsValues}

\* The replies of a backend that always answers with a well-formed plan.
PlainReplies ==
    {[kind |-> "object",
      obj |-> [intent |-> "analytics", confirm_required |-> FALSE,
               steps |-> [t |-> "list", v |-> <<JObj([tool |-> "get_sales_stats"])>>]]],
     [kind |-> "object",
      obj |-> [intent |-> "structural_change", confirm_required |-> FALSE,
               steps |-> [t |-> "list",
                          v |-> <<JObj([tool |-> "create_task",
                                        args |-> ArgsMap([subject |-> "s"])])>>]]]}

---------------------------------------------------------------------------
VARIABLES
    today,          \* date.today()
    pc,             \* where execute is: idle, planning, loop, done, raised
    command_text,   \* execute's arguments
    dry_run,
    confirm_token,
    plan,           \* execute's locals
    steps,
    idx,
    results,
    ret,            \* the dict execute returned
    exc,            \* the exception that left execute
    invoked,        \* the tool calls made for this Command, in order
    llm_calls,      \* llm.complete calls made for this Command
    now,            \* time.time()
    fail_window,    \* LLMClient._fail_window
    cpc,            \* where complete is: idle, check, call, wait, returned, raised
    attempt,        \* tenacity's attempt_number
    backend_calls,  \* backend requests sent by the current complete call
    reply,          \* what complete returned
    cexc,           \* the exception that left complete
    tripped,        \* this client has raised CircuitBreaker
    completes,      \* complete calls made on the long-lived client
    minted,         \* uuid.uuid4() values drawn so far
    corr_id,        \* execute's locals corr_id and idem
    idem,
    routed,         \* smart_execute's local routed (route_and_execute's result)
    caller,         \* the arguments smart_execute was called with
    failed_cmds,    \* Commands so far that a backend error ended
    th,             \* the threads that share one client: each one's position
                    \* in complete and its locals
    recorded        \* every timestamp _record_fail appended on that client

entryVars == <<routed, caller, failed_cmds>>

threadVars == <<th, recorded>>

execVars ==
    <<pc, command_text, dry_run, confirm_token, plan, steps, idx, results,
      ret, exc, invoked, llm_calls, minted, corr_id, idem, entryVars>>

clientVars ==
    <<now, fail_window, cpc, attempt, backend_calls, reply, cexc, tripped>>

vars == <<today, execVars, clientVars, completes, threadVars>>

NoPlan == [steps |-> <<>>]

NoReturn == [status |-> "none"]

NoReply == [kind |-> "none", obj |-> EmptyDict]

NoRouted ==
    [kind |-> "none", action |-> "none", rows |-> <<>>, raw |-> FALSE,
     route |-> [action |-> "none"], calls |-> <<>>]

NoCaller == [dry_run |-> FALSE, confirm_token |-> ""]

\* The threads that call complete on one shared client.
Threads == {"a", "b"}

IdleThread == [pc |-> "idle", attempt |-> 0, t0 |-> 0, snap |-> <<>>, wake |-> 0]

DoneThread == [IdleThread EXCEPT !.pc = "done"]

\* The state after construction, on one of the days.
InitOn(days) ==
    /\ today \in days
    /\ pc = "idle"
    /\ command_text = <<>>
    /\ dry_run = FALSE
    /\ confirm_token = ""
    /\ plan = NoPlan
    /\ steps = <<>>
    /\ idx = 0
    /\ results = <<>>
    /\ ret = NoReturn
    /\ exc = "none"
    /\ invoked = <<>>
    /\ llm_calls = 0
    /\ now = 0
    /\ fail_window = <<>>
    /\ cpc = "idle"
    /\ attempt = 0
    /\ backend_calls = 0
    /\ reply = NoReply
    /\ cexc = "none"
    /\ tripped = FALSE
    /\ completes = 0
    /\ minted = 0
    /\ corr_id = 0
    /\ idem = 0
    /\ routed = NoRouted
    /\ caller = NoCaller
    /\ failed_cmds = 0
    /\ th = [t \in Threads |-> IdleThread]
    /\ recorded = <<>>

Init == InitOn(Todays)

---------------------------------------------------------------------------
(* llm_client.py: LLMClient.                                               *)
\* Mutant: the window is never pruned.
PrunedNever(w, t) == w

Pruned(w, t) == SelectSeq(w, LAMBDA x : t - x < WindowSecs)

\* Mutant: the circuit opens one failure late.
CircuitOpenLate(w, t) ==
    /\ Len(w) > FailThreshold
    /\ t - w[Len(w)] < RecentSecs

\* Mutant: the age of the last failure is not looked at.
CircuitOpenAnyAge(w, t) == Len(w) >= FailThreshold

\* Mutant: the circuit opens one failure early.
CircuitOpenEarly(w, t) ==
    /\ Len(w) >= FailThreshold - 1
    /\ t - w[Len(w)] < RecentSecs

CircuitOpen(w, t) ==
    /\ Len(w) >= FailThreshold
    /\ t - w[Len(w)] < RecentSecs

\* _check_circuit: prune the window, then raise when the circuit is open.
check_circuit ==
    /\ cpc = "check"
    /\ fail_window' = Pruned(fail_window, now)
    /\ IF CircuitOpen(fail_window', now)
       THEN cpc' = "raised" /\ cexc' = "CircuitBreaker" /\ tripped' = TRUE
       ELSE cpc' = "call" /\ cexc' = cexc /\ tripped' = tripped
    /\ UNCHANGED <<now, attempt, backend_calls, reply>>
    /\ UNCHANGED <<today, execVars, completes, threadVars>>

\* retry_if_exception_type((APIConnectionError, RateLimitError))
Retried == {"APIConnectionError", "RateLimitError"}

\* except APIConnectionError / except (APIStatusError, RateLimitError)
Recorded == Retried \cup {"APIStatusError"}

\* What self._call can raise: the three openai errors and anything else.
CallErrors == Recorded \cup {"Exception"}

\* self._call returned the completion text.
call_ok(replies) ==
    /\ cpc = "call"
    /\ \E r \in replies : reply' = r
    /\ backend_calls' = backend_calls + 1
    /\ cpc' = "returned"
    /\ UNCHANGED <<now, fail_window, attempt, cexc, tripped>>
    /\ UNCHANGED <<today, execVars, completes, threadVars>>

\* self._call raised e: _record_fail for the caught kinds, then tenacity
\* retries (after its wait) or re-raises.
call_fail ==
    /\ cpc = "call"
    /\ \E e \in CallErrors :
        /\ fail_window' = IF e \in Recorded THEN Append(fail_window, now) ELSE fail_window
        /\ IF e \in Retried /\ attempt < MaxAttempts
           THEN cpc' = "wait" /\ cexc' = cexc
           ELSE cpc' = "raised" /\ cexc' = e
    /\ backend_calls' = backend_calls + 1
    /\ UNCHANGED <<now, attempt, reply, tripped>>
    /\ UNCHANGED <<today, execVars, completes, threadVars>>

RECURSIVE Pow2(_)
Pow2(n) == IF n <= 0 THEN 1 ELSE 2 * Pow2(n - 1)

\* wait_exponential(multiplier=1, min=1, max=10) after attempt number n
wait_exponential(n) == Max(WaitMin, Min(Pow2(n - 1), WaitMax))

backoff ==
    /\ cpc = "wait"
    /\ now' = now + wait_exponential(attempt)
    /\ attempt' = attempt + 1
    /\ cpc' = "check"
    /\ UNCHANGED <<fail_window, backend_calls, reply, cexc, tripped>>
    /\ UNCHANGED <<today, execVars, completes, threadVars>>

\* A caller that holds one client calls complete, d seconds after the
\* previous call ended.
Delays == {1, 29, 30, 86, 91}

complete ==
    /\ pc = "idle"
    /\ cpc \in {"idle", "returned", "raised"}
    /\ completes < MaxCompletes
    /\ completes' = completes + 1
    /\ \E d \in Delays : now' = now + d
    /\ attempt' = 1
    /\ backend_calls' = 0
    /\ reply' = NoReply
    /\ cexc' = "none"
    /\ cpc' = "check"
    /\ UNCHANGED <<today, execVars, fail_window, tripped, threadVars>>

---------------------------------------------------------------------------
(* llm_client.py: complete(streaming=True).  _call sends the request and   *)
(* returns gen(), a generator over the backend's events; complete returns  *)
(* it.  The events are fetched when the consumer iterates it, after        *)
(* complete, its except clauses and tenacity's retry have been left.       *)

\* The generator: open, ended or failed; the fragments it has yielded so
\* far (the i-th event of the stream is i); the exception it raised.
Generator(state, sent, e) ==
    [kind |-> "generator", obj |-> EmptyDict, state |-> state, sent |-> sent,
     exc |-> e]

\* return gen()
NewGenerator == Generator("open", <<>>, "none")

\* Mutant: the request is sent again and the stream starts over.
gen_restarts(g, e) == NewGenerator

\* 'for evt in resp' raises e inside gen(): the exception leaves the
\* generator, into the consumer's next().
gen_raises(g, e) == Generator("failed", g.sent, e)

\* The consumer asks the generator for the next fragment: the backend sends
\* one more event, ends the stream, or fails.
gen_next ==
    /\ cpc = "returned"
    /\ reply.kind = "generator"
    /\ reply.state = "open"
    /\ \/ /\ Len(reply.sent) < MaxFragments
          /\ reply' = Generator("open", Append(reply.sent, Len(reply.sent) + 1), "none")
       \/ reply' = Generator("ended", reply.sent, "none")
       \/ \E e \in CallErrors : reply' = gen_raises(reply, e)
    /\ UNCHANGED <<now, fail_window, cpc, attempt, backend_calls, cexc, tripped>>
    /\ UNCHANGED <<today, execVars, completes, threadVars>>

---------------------------------------------------------------------------
(* llm_client.py: complete called from several threads on one LLMClient.   *)
(* The client holds no lock.  A thread can be preempted between any two    *)
(* bytecodes; the steps below are the ones between which that matters:     *)
(* _check_circuit builds the pruned list, then stores it in the attribute; *)
(* list.append is a single step.                                           *)
SetThread(t, r) == [th EXCEPT ![t] = r]

\* Thread t enters complete, once.
t_complete(t) ==
    /\ th[t].pc = "idle"
    /\ completes' = completes + 1
    /\ th' = SetThread(t, [IdleThread EXCEPT !.pc = "check", !.attempt = 1])
    /\ UNCHANGED <<today, execVars, clientVars, recorded>>

\* _check_circuit: now = time.time(); [t for t in self._fail_window if ...]
t_prune(t) ==
    /\ th[t].pc = "check"
    /\ th' = SetThread(t, [th[t] EXCEPT !.pc = "assign", !.t0 = now,
                                        !.snap = Pruned(fail_window, now)])
    /\ UNCHANGED <<today, execVars, clientVars, completes, recorded>>

\* _check_circuit: self._fail_window = <the list built>, and the test.
t_assign(t) ==
    /\ th[t].pc = "assign"
    /\ fail_window' = th[t].snap
    /\ IF CircuitOpen(th[t].snap, th[t].t0)
       THEN th' = SetThread(t, DoneThread) /\ tripped' = TRUE
       ELSE /\ th' = SetThread(t, [th[t] EXCEPT !.pc = "call", !.t0 = 0, !.snap = <<>>])
            /\ tripped' = tripped
    /\ UNCHANGED <<today, execVars, now, cpc, attempt, backend_calls, reply, cexc,
                   completes, recorded>>

\* self._call returned.
t_call_ok(t) ==
    /\ th[t].pc = "call"
    /\ th' = SetThread(t, DoneThread)
    /\ UNCHANGED <<today, execVars, clientVars, completes, recorded>>

\* self._call raised e: _record_fail, then tenacity sleeps or re-raises.
t_call_fail(t) ==
    /\ th[t].pc = "call"
    /\ \E e \in CallErrors :
        /\ IF e \in Recorded
           THEN /\ fail_window' = Append(fail_window, now)
                /\ recorded' = Append(recorded, now)
           ELSE UNCHANGED <<fail_window, recorded>>
        /\ IF e \in Retried /\ th[t].attempt < MaxAttempts
           THEN th' = SetThread(t, [th[t] EXCEPT !.pc = "wait",
                        !.wake = now + wait_exponential(th[t].attempt)])
           ELSE th' = SetThread(t, DoneThread)
    /\ UNCHANGED <<today, execVars, now, cpc, attempt, backend_calls, reply, cexc,
                   tripped, completes>>

\* tenacity's sleep is over: the next attempt.
t_retry(t) ==
    /\ th[t].pc = "wait"
    /\ now >= th[t].wake
    /\ th' = SetThread(t, [th[t] EXCEPT !.pc = "check", !.wake = 0,
                                        !.attempt = th[t].attempt + 1])
    /\ UNCHANGED <<today, execVars, clientVars, completes, recorded>>

\* A second passes.
tick ==
    /\ now < MaxClock
    /\ now' = now + 1
    /\ UNCHANGED <<today, execVars, fail_window, cpc, attempt, backend_calls, reply,
                   cexc, tripped, completes, threadVars>>

---------------------------------------------------------------------------
(* agent.py: execute.                                                      *)

\* Mutant: the gate reads only the confirm_required field.
ConfirmNeededFieldOnly(p) == Get(p, "confirm_required", FALSE)

\* Mutant: a plan with a mutating step needs confirmation too.
ConfirmNeededForMutatingSteps(p) ==
    \/ Get(p, "confirm_required", FALSE)
    \/ Get(p, "intent", "analytics") = "structural_change"
    \/ \E i \in 1..Len(p.steps) : p.steps[i].tool \in MutatingTools

\* bool(plan.get("confirm_required")) or (intent in {"structural_change"})
ConfirmNeeded(p) ==
    \/ Get(p, "confirm_required", FALSE)
    \/ Get(p, "intent", "analytics") = "structural_change"

\* 'intent in {...}' hashes intent; it is evaluated when the left operand
\* of the 'or' is false.
GateRaises(p) ==
    /\ ~Get(p, "confirm_required", FALSE)
    /\ Get(p, "intent", "analytics") = UnhashableIntent

\* Mutant: only the token "yes" confirms.
AwaitsUnlessTokenValid(p, dr, tok) == ConfirmNeeded(p) /\ tok # "yes" /\ ~dr

\* if confirm_needed and not confirm_token and not dry_run
AwaitsConfirmation(p, dr, tok) == ConfirmNeeded(p) /\ tok = "" /\ ~dr

\* Mutant: the slice starts one step late.
FirstStepsFromSecond(p) == SubSeq(p.steps, 2, Min(Len(p.steps), MaxPlanSteps))

\* plan.get("steps", [])[:8]
FirstSteps(p) == SubSeq(p.steps, 1, Min(Len(p.steps), MaxPlanSteps))

\* execute, lines 101-106, once classify_and_plan returned p.
AfterPlan(p, dr, tok, cid) ==
        /\ plan' = p
        /\ steps' = FirstSteps(p)
        /\ idx' = 1
        /\ results' = <<>>
        /\ invoked' = <<>>
        /\ IF GateRaises(p)
           THEN pc' = "raised" /\ exc' = "TypeError" /\ ret' = NoReturn
           ELSE IF AwaitsConfirmation(p, dr, tok)
           THEN /\ pc' = "done"
                /\ exc' = "none"
                /\ ret' = [status |-> "awaiting_confirmation",
                           correlation_id |-> cid, plan |-> p]
           ELSE pc' = "loop" /\ exc' = "none" /\ ret' = NoReturn

\* execute is called: two uuid4 values, a new LLMClient, and classify_and_plan
\* up to the fast path or the entry into llm.complete.  It is the n-th
\* Command at most.
execute(c, dr, tok, n) ==
    /\ pc = "idle"
    /\ cpc \in {"idle", "returned", "raised"}
    /\ minted + 2 <= 2 * n
    /\ minted' = minted + 2
    /\ corr_id' = minted + 1
    /\ idem' = minted + 2
    /\ now' = 0
    /\ fail_window' = <<>>
    /\ backend_calls' = 0
    /\ reply' = NoReply
    /\ cexc' = "none"
    /\ tripped' = FALSE
    /\ command_text' = c
    /\ dry_run' = dr
    /\ confirm_token' = tok
    /\ IF FastBranch(c) # "none"
       THEN /\ llm_calls' = 0
            /\ cpc' = "idle"
            /\ attempt' = 0
            /\ AfterPlan(fastpath(c, today), dr, tok, minted + 1)
       ELSE /\ llm_calls' = 1
            /\ cpc' = "check"
            /\ attempt' = 1
            /\ pc' = "planning"
            /\ UNCHANGED <<plan, steps, idx, results, ret, exc, invoked>>
    /\ UNCHANGED <<today, completes, failed_cmds, threadVars>>

\* A caller calls execute directly.
ExecuteUpTo(cmds, n) ==
    /\ pc = "idle"
    /\ \E c \in cmds, dr \in BOOLEAN, tok \in Tokens :
        /\ execute(c, dr, tok, n)
        /\ routed' = NoRouted
        /\ caller' = NoCaller

Execute(cmds) == ExecuteUpTo(cmds, MaxCommands)

---------------------------------------------------------------------------
(* router.py: route and execute_routed.  A query is its words, in order; a *)
(* date is <<year, month, day>>, and its ISO string is modelled by the     *)
(* same three fields.                                                      *)
HasWord(cmd, ws) == \E i \in 1..Len(cmd) : cmd[i] \in ws

\* Python's datetime: the Gregorian calendar.
IsLeap(y) == (y % 4 = 0 /\ y % 100 # 0) \/ y % 400 = 0

DaysInMonth(y, m) ==
    IF m = 2 THEN (IF IsLeap(y) THEN 29 ELSE 28)
    ELSE IF m \in {4, 6, 9, 11} THEN 30
    ELSE 31

\* d - dt.timedelta(days=n)
RECURSIVE minus_days(_, _)
minus_days(d, n) ==
    IF n = 0 THEN d
    ELSE IF d[3] > n THEN <<d[1], d[2], d[3] - n>>
    ELSE LET py == IF d[2] = 1 THEN d[1] - 1 ELSE d[1]
             pm == IF d[2] = 1 THEN 12 ELSE d[2] - 1
         IN  minus_days(<<py, pm, DaysInMonth(py, pm)>>, n - d[3])

first_day_of_year(d) == <<d[1], 1, 1>>

first_day_of_month(d) == <<d[1], d[2], 1>>

\* Mutant: every month ends on the 28th.
last_day_of_month28(d) == <<d[1], d[2], 28>>

last_day_of_month(d) ==
    IF d[2] = 12
    THEN <<d[1], 12, 31>>
    ELSE minus_days(<<d[1], d[2] + 1, 1>>, 1)

\* _parse_date_range: <<from_date, to_date, label>>
parse_date_range(cmd, t) ==
    IF \/ HasWord(cmd, {"ytd"})
       \/ HasPhrase(cmd, <<"this", "year">>)
       \/ HasPhrase(cmd, <<"year", "to", "date">>)
    THEN <<first_day_of_year(t), t, "this year">>
    ELSE IF HasPhrase(cmd, <<"last", "12", "months">>) \/ HasWord(cmd, {"l12m"})
    THEN <<minus_days(t, 365), t, "last 12 months">>
    ELSE IF HasPhrase(cmd, <<"last", "30", "days">>)
    THEN <<minus_days(t, 30), t, "last 30 days">>
    ELSE IF \/ HasPhrase(cmd, <<"this", "month">>)
            \/ HasWord(cmd, {"mtd"})
            \/ HasPhrase(cmd, <<"month", "to", "date">>)
    THEN <<first_day_of_month(t), t, "this month">>
    ELSE IF HasPhrase(cmd, <<"last", "month">>)
    THEN LET lm == minus_days(<<t[1], t[2], 1>>, 1)
         IN  <<first_day_of_month(lm), last_day_of_month(lm), "last month">>
    ELSE IF HasWord(cmd, {"today"})
    THEN <<t, t, "today">>
    ELSE IF HasWord(cmd, {"yesterday"})
    THEN <<minus_days(t, 1), minus_days(t, 1), "yesterday">>
    ELSE <<minus_days(t, 365), t, "last 12 months">>

\* int(): the value of a word that is a decimal numeral.
IntValue ==
    ("0" :> 0) @@ ("12" :> 12) @@ ("250" :> 250) @@ ("1000" :> 1000)

\* The number of digits of a numeral (none here has a leading zero).
NumDigits(w) ==
    IF IntValue[w] < 10 THEN 1
    ELSE IF IntValue[w] < 100 THEN 2
    ELSE IF IntValue[w] < 1000 THEN 3
    ELSE 4

NoTopN == [k |-> "none", n |-> 0]

\* Mutant: no lower clamp.
clamp_top_nAbove(v) == Min(200, v)

\* max(1, min(200, int(m.group(1))))
clamp_top_n(v) == Max(1, Min(200, v))

\* Where \btop\s+(\d{1,3})\b matches: "top", then a word of 1 to 3 digits.
TopMatches(cmd) ==
    {i \in 1..(Len(cmd) - 1) :
        /\ cmd[i] = "top"
        /\ cmd[i + 1] \in DOMAIN IntValue
        /\ NumDigits(cmd[i + 1]) <= 3}

\* _detect_top_n: re.search takes the leftmost match.
detect_top_n(cmd) ==
    IF TopMatches(cmd) = {}
    THEN NoTopN
    ELSE LET i == CHOOSE x \in TopMatches(cmd) : \A y \in TopMatches(cmd) : x <= y
         IN  [k |-> "int", n |-> clamp_top_n(IntValue[cmd[i + 1]])]

\* re.match(r"^\s*(how|what|why|when|where|explain|guide|docs?)\b", ...)
is_docs_question(cmd) ==
    /\ Len(cmd) > 0
    /\ cmd[1] \in {"how", "what", "why", "when", "where", "explain", "guide",
                   "doc", "docs"}

detect_domain(cmd) ==
    IF HasWord(cmd, {"buy", "bought", "vendor", "supplier", "po", "purchase",
                     "spend", "ap"})
    THEN "purchase"
    ELSE IF HasWord(cmd, {"stock", "inventory", "warehouse", "qty", "available"})
    THEN "inventory"
    ELSE "sales"

\* _detect_dimension: the first of _SYNONYMS_DIM, in its order, with a word
\* in the text; supplier counts for the purchase domain only.
detect_dimension(cmd, domain) ==
    IF HasWord(cmd, {"month", "monthly"}) THEN "month"
    ELSE IF HasWord(cmd, {"customer", "customers", "party"}) THEN "customer"
    ELSE IF HasWord(cmd, {"item", "sku", "product"}) THEN "item"
    ELSE IF HasWord(cmd, {"region", "territory", "country", "state"}) THEN "region"
    ELSE IF HasWord(cmd, {"supplier", "vendor"}) /\ domain = "purchase" THEN "supplier"
    ELSE IF domain = "sales" THEN "customer"
    ELSE IF domain = "purchase" THEN "supplier"
    ELSE "month"

\* route(query)["action"]
route_action(cmd) ==
    IF is_docs_question(cmd) THEN "rag"
    ELSE IF HasPhrase(cmd, <<"run", "report">>) THEN "run_report"
    ELSE IF detect_domain(cmd) = "inventory" THEN "inventory_snapshot"
    ELSE IF detect_domain(cmd) = "purchase" THEN "purchase_stats"
    ELSE "sales_stats"

\* The group_by label of a report for a dimension.
GroupUi(dim) ==
    CASE dim = "month" -> "Month"
      [] dim = "customer" -> "Customer"
      [] dim = "item" -> "Item Code"
      [] dim = "region" -> "Territory"
      [] dim = "supplier" -> "Supplier"

\* route(query), on the day t.
route(cmd, t) ==
    LET a == route_action(cmd)
        domain == detect_domain(cmd)
        w == parse_date_range(cmd, t)
        dim == detect_dimension(cmd, domain)
    IN  CASE a = "rag" ->
               [intent |-> "doc_help", action |-> a, query |-> cmd]
          [] a = "run_report" ->
               [intent |-> "reporting", action |-> a,
                report_name |-> IF domain = "sales" THEN "Sales Analytics"
                                ELSE "Purchase Analytics",
                filters |-> [from_date |-> w[1], to_date |-> w[2],
                             group_by |-> GroupUi(dim)]]
          [] a = "inventory_snapshot" ->
               [intent |-> "analytics", action |-> a, args |-> [warehouse |-> "None"]]
          [] OTHER ->
               [intent |-> "analytics", action |-> a,
                args |-> [by |-> dim, from_date |-> w[1], to_date |-> w[2],
                          top_n |-> detect_top_n(cmd)]]

\* The tool execute_routed calls for an action.
RouterTool(a) ==
    CASE a = "rag" -> "answer_question"
      [] a = "inventory_snapshot" -> "get_inventory_snapshot"
      [] a = "purchase_stats" -> "get_purchase_stats"
      [] a = "sales_stats" -> "get_sales_stats"
      [] a = "run_report" -> "run_report"

\* What route_and_execute gave: the dict execute_routed returned (its "rows"
\* and whether it carries a non-empty "raw"), the route r it came from, and
\* the calls of the tool made on the way.
Routed(r, rows, raw, calls) ==
    [kind |-> "dict", action |-> r.action, rows |-> rows, raw |-> raw,
     route |-> r, calls |-> calls]

\* The tool raised, after these calls.
RouterRaised(r, calls) ==
    [kind |-> "raises", action |-> r.action, rows |-> <<>>, raw |-> FALSE,
     route |-> r, calls |-> calls]

\* The rows a query of the database gives: none, or some.
RowSets == {<<>>, <<"row">>}

\* getter(by=dim, from_date=..., to_date=...), and what it gave: it raised,
\* or returned these rows.
GetterCall(a, by, f, t, raised, rows) ==
    [tool |-> RouterTool(a), by |-> by, from_date |-> f, to_date |-> t,
     raised |-> raised, rows |-> rows]

\* Mutant: the window is widened whatever the first query gave.
WidensAlways(rows) == TRUE

\* if not rows
Widens(rows) == rows = <<>>

\* (t_dt - dt.timedelta(days=365*3)).isoformat()
widened_from(t) == minus_days(t, 365 * 3)

\* sorted(rows, ...)[:top_n], when there are rows and top_n is not None
TopRows(rows, top_n) ==
    IF rows # <<>> /\ top_n.k = "int"
    THEN SubSeq(rows, 1, Min(Len(rows), top_n.n))
    ELSE rows

\* execute_routed for sales_stats and purchase_stats (router.py:162-189):
\* one query, a second one over the widened window when the first gave no
\* rows, then the top-N cut.  Either query can raise.
StatsResults(r) ==
    LET q1(raised, rows) ==
            GetterCall(r.action, r.args.by, r.args.from_date, r.args.to_date,
                       raised, rows)
        q2(raised, rows) ==
            GetterCall(r.action, r.args.by, widened_from(r.args.to_date),
                       r.args.to_date, raised, rows)
    IN  {RouterRaised(r, <<q1(TRUE, <<>>)>>)}
        \cup UNION {
               IF Widens(rows1)
               THEN {RouterRaised(r, <<q1(FALSE, rows1), q2(TRUE, <<>>)>>)}
                    \cup {Routed(r, TopRows(rows2, r.args.top_n), FALSE,
                                 <<q1(FALSE, rows1), q2(FALSE, rows2)>>) :
                            rows2 \in RowSets}
               ELSE {Routed(r, TopRows(rows1, r.args.top_n), FALSE,
                            <<q1(FALSE, rows1)>>)}
               : rows1 \in RowSets }

\* What route_and_execute gives for a route: the dict execute_routed
\* returns, or the exception of the tool it calls.
\*  - rag: rows is [[answer]], raw the answer dict;
\*  - inventory_snapshot: frappe_tools has no get_inventory_snapshot;
\*  - sales_stats, purchase_stats: the dict of the stats tool, without "raw";
\*  - run_report: the report (or its shaped rows), with "raw".
RoutedResults(r) ==
    CASE r.action = "rag" ->
           {RouterRaised(r, <<[tool |-> "answer_question"]>>),
            Routed(r, <<"row">>, TRUE, <<[tool |-> "answer_question"]>>)}
      [] r.action = "inventory_snapshot" -> {RouterRaised(r, <<>>)}
      [] r.action \in {"sales_stats", "purchase_stats"} -> StatsResults(r)
      [] r.action = "run_report" ->
           LET c == [tool |-> "run_report", report_name |-> r.report_name,
                     filters |-> r.filters]
           IN  {RouterRaised(r, <<c>>)}
               \cup {Routed(r, rows, TRUE, <<c>>) : rows \in RowSets}

\* The phrases queries are made of, and the queries: up to MaxPhrases of
\* them, one after the other.
Phrases ==
    {<<"what">>, <<"run", "report">>, <<"stock">>, <<"vendor">>, <<"customers">>,
     <<"ytd">>, <<"last", "12", "months">>, <<"last", "30", "days">>,
     <<"this", "month">>, <<"last", "month">>, <<"today">>, <<"yesterday">>,
     <<"top">>, <<"0">>, <<"12">>, <<"250">>, <<"1000">>}

RECURSIVE Flatten(_)
Flatten(ps) == IF ps = <<>> THEN <<>> ELSE Head(ps) \o Flatten(Tail(ps))

RouterQueries == {Flatten(ps) : ps \in UNION {[1..n -> Phrases] : n \in 0..MaxPhrases}}

\* A caller calls route_and_execute(q), as smart_execute does first.
route_and_execute(q) ==
    /\ pc = "idle"
    /\ cpc = "idle"
    /\ command_text' = q
    /\ \E r \in RoutedResults(route(q, today)) :
        /\ routed' = r
        /\ IF r.kind = "raises"
           THEN pc' = "raised" /\ exc' = "RouterError"
           ELSE pc' = "done" /\ exc' = exc
    /\ UNCHANGED <<dry_run, confirm_token, plan, steps, idx, results, ret, invoked,
                   llm_calls, minted, corr_id, idem, caller, failed_cmds>>
    /\ UNCHANGED <<today, clientVars, completes, threadVars>>

RouteAndExecute(qs) ==
    /\ pc = "idle"
    /\ \E q \in qs : route_and_execute(q)

---------------------------------------------------------------------------
(* agent.py: smart_execute.                                                *)
\* Mutant: only non-empty rows count.
ShortCircuitRowsOnly(r) == r.kind = "dict" /\ r.rows # <<>>

\* isinstance(routed, dict) and (rows or routed.get("raw"))
ShortCircuit(r) == r.kind = "dict" /\ (r.rows # <<>> \/ r.raw)

RouterAnswer(r) ==
    [status |-> "completed",
     plan |-> [intent |-> "auto", steps |-> <<>>, risks |-> <<>>,
               confirm_required |-> FALSE],
     results |-> <<[step |-> 1, tool |-> "router", result |-> r]>>]

\* return execute(command_text, user, dry_run=dry_run, confirm_token=confirm_token)
FallThrough(c, dr, tok) == execute(c, dr, tok, MaxCommands)

smart_execute(c, dr, tok) ==
    /\ pc = "idle"
    /\ cpc \in {"idle", "returned", "raised"}
    /\ caller' = [dry_run |-> dr, confirm_token |-> tok]
    /\ \E r \in RoutedResults(route(c, today)) :
        /\ routed' = r
        /\ IF r.kind = "raises"
           THEN /\ pc' = "raised"
                /\ exc' = "RouterError"
                /\ UNCHANGED <<ret, command_text, dry_run, confirm_token, plan, steps,
                               idx, results, invoked, llm_calls, minted, corr_id,
                               idem, failed_cmds, today, clientVars, completes,
                               threadVars>>
           ELSE IF ShortCircuit(r)
           THEN /\ pc' = "done"
                /\ ret' = RouterAnswer(r)
                /\ UNCHANGED <<exc, command_text, dry_run, confirm_token, plan, steps,
                               idx, results, invoked, llm_calls, minted, corr_id,
                               idem, failed_cmds, today, clientVars, completes,
                               threadVars>>
           ELSE FallThrough(c, dr, tok)

\* api.plan_and_execute: smart_execute(command_text, user, dry_run=..., ...)
SmartExecute(cmds) ==
    /\ pc = "idle"
    /\ \E c \in cmds, dr \in BOOLEAN, tok \in ApiTokens : smart_execute(c, dr, tok)

\* llm.complete returned: json.loads, the filter, _normalize_steps, the gate.
PlanReturned ==
    /\ pc = "planning"
    /\ cpc = "returned"
    /\ AfterPlan(parse_plan(reply, today), dry_run, confirm_token, corr_id)
    /\ UNCHANGED <<today, command_text, dry_run, confirm_token, llm_calls,
                   minted, corr_id, idem, entryVars, clientVars, completes,
                   threadVars>>

\* llm.complete raised: the call is outside classify_and_plan's try block.
PlanRaised ==
    /\ pc = "planning"
    /\ cpc = "raised"
    /\ pc' = "raised"
    /\ exc' = cexc
    /\ UNCHANGED <<today, command_text, dry_run, confirm_token, plan, steps, idx,
                   results, ret, invoked, llm_calls, minted, corr_id, idem,
                   entryVars, clientVars, completes, threadVars>>

\* What a tool call does: it returns its payload or raises.
ToolOutcomes == {"returns", "raises"}

Payload == [rows |-> <<>>]

Kwargs(tool, args, key) ==
    IF tool \in KeyedTools THEN setdefault(args.m, "idempotency_key", key) ELSE args.m

\* Mutant: a dry run skips only the mutating tools of the catalog.
SkipsCatalogOnly(dr, tool) == dr /\ tool \in MutatingTools

\* if dry_run and tool not in READ_ONLY_TOOLS
Skips(dr, tool) == dr /\ tool \notin READ_ONLY_TOOLS

\* One iteration of the loop over steps (agent.py:108-144).
Step ==
    /\ pc = "loop"
    /\ idx <= Len(steps)
    /\ LET tool == steps[idx].tool
           args == steps[idx].args
       IN  IF Skips(dry_run, tool)
           THEN /\ results' = Append(results,
                        [step |-> idx, tool |-> tool, dry_run |-> TRUE, args |-> args])
                /\ idx' = idx + 1
                /\ UNCHANGED <<pc, exc, invoked>>
           ELSE IF tool \notin DispatchTools
           THEN /\ results' = Append(results,
                        [step |-> idx, tool |-> tool,
                         result |-> [error |-> <<"unknown tool", tool>>]])
                /\ idx' = idx + 1
                /\ UNCHANGED <<pc, exc, invoked>>
           ELSE IF args.k # "map"
           THEN \* f(**args) with args no mapping: TypeError, f is not entered
                /\ pc' = "raised"
                /\ exc' = "TypeError"
                /\ UNCHANGED <<results, idx, invoked>>
           ELSE \E o \in ToolOutcomes :
                /\ invoked' = Append(invoked,
                        [tool |-> tool, kwargs |-> Kwargs(tool, args, idem)])
                /\ IF o = "returns"
                   THEN /\ results' = Append(results,
                                [step |-> idx, tool |-> tool, result |-> Payload])
                        /\ idx' = idx + 1
                        /\ UNCHANGED <<pc, exc>>
                   ELSE /\ pc' = "raised"
                        /\ exc' = "ToolError"
                        /\ UNCHANGED <<results, idx>>
    /\ UNCHANGED <<today, command_text, dry_run, confirm_token, plan, steps, ret,
                   llm_calls, minted, corr_id, idem, entryVars, clientVars,
                   completes, threadVars>>

\* After the loop: the summary scan finds no "period"/"revenue" row (the rows
\* of get_sales_stats carry "label" and "total"), and execute returns.
Finish ==
    /\ pc = "loop"
    /\ idx > Len(steps)
    /\ pc' = "done"
    /\ ret' = [status |-> "completed", correlation_id |-> corr_id,
               plan |-> plan, results |-> results]
    /\ UNCHANGED <<today, command_text, dry_run, confirm_token, plan, steps, idx,
                   results, exc, invoked, llm_calls, minted, corr_id, idem,
                   entryVars, clientVars, completes, threadVars>>

\* The caller has the result (or the exception); execute's frame is gone.
Return ==
    /\ pc \in {"done", "raised"}
    /\ pc' = "idle"
    /\ command_text' = <<>>
    /\ dry_run' = FALSE
    /\ confirm_token' = ""
    /\ plan' = NoPlan
    /\ steps' = <<>>
    /\ idx' = 0
    /\ results' = <<>>
    /\ ret' = NoReturn
    /\ exc' = "none"
    /\ invoked' = <<>>
    /\ llm_calls' = 0
    /\ corr_id' = 0
    /\ idem' = 0
    /\ now' = 0
    /\ fail_window' = <<>>
    /\ cpc' = "idle"
    /\ attempt' = 0
    /\ backend_calls' = 0
    /\ reply' = NoReply
    /\ cexc' = "none"
    /\ tripped' = FALSE
    /\ routed' = NoRouted
    /\ caller' = NoCaller
    /\ failed_cmds' = IF pc = "raised" /\ exc \in Recorded
                      THEN failed_cmds + 1
                      ELSE failed_cmds
    /\ UNCHANGED <<today, minted, completes, threadVars>>

---------------------------------------------------------------------------
NextWith(cmds, replies) ==
    \/ Execute(cmds)
    \/ check_circuit
    \/ call_ok(replies)
    \/ call_fail
    \/ backoff
    \/ PlanReturned
    \/ PlanRaised
    \/ Step
    \/ Finish
    \/ Return

\* Commands of each _fastpath branch against every reply of the backend.
Next == NextWith(ExecCommands, Replies)

Spec == Init /\ [][Next]_vars

\* Every command text against a backend that answers with plain plans.
NextFast == NextWith(Commands, PlainReplies)

SpecFast == Init /\ [][NextFast]_vars

\* One long-lived client, called MaxCompletes times.
NextClient ==
    \/ complete
    \/ check_circuit
    \/ call_ok({NoReply})
    \/ call_fail
    \/ backoff

SpecClient == Init /\ [][NextClient]_vars

\* One long-lived client, called with streaming=True; the caller consumes
\* the fragments.
NextStream ==
    \/ complete
    \/ check_circuit
    \/ call_ok({NewGenerator})
    \/ call_fail
    \/ backoff
    \/ gen_next

SpecStream == Init /\ [][NextStream]_vars

\* A burst: up to MaxBurst Commands that the fast path does not plan, one
\* right after the other.
NextBurst ==
    \/ ExecuteUpTo({<<"customers">>}, MaxBurst)
    \/ check_circuit
    \/ call_ok(PlainReplies)
    \/ call_fail
    \/ backoff
    \/ PlanReturned
    \/ PlanRaised
    \/ Step
    \/ Finish
    \/ Return

SpecBurst == Init /\ [][NextBurst]_vars

\* One text per action of the router and per branch of _fastpath.
SmartCommands ==
    {<<"what", "customers">>, <<"stock">>, <<"run", "report">>, <<"vendor">>,
     <<"customers">>, <<"top", "customers">>, <<"best", "selling", "month">>}

\* Commands that come in through plan_and_execute.
NextSmart ==
    \/ SmartExecute(SmartCommands)
    \/ check_circuit
    \/ call_ok(PlainReplies)
    \/ call_fail
    \/ backoff
    \/ PlanReturned
    \/ PlanRaised
    \/ Step
    \/ Finish
    \/ Return

SpecSmart == Init /\ [][NextSmart]_vars

\* Queries to the router alone.
NextRouter ==
    \/ RouteAndExecute(RouterQueries)
    \/ Return

SpecRouter == InitOn(RouterTodays) /\ [][NextRouter]_vars

\* Two threads share one client.
NextThreads ==
    \/ \E t \in Threads : t_complete(t)
    \/ \E t \in Threads : t_prune(t)
    \/ \E t \in Threads : t_assign(t)
    \/ \E t \in Threads : t_call_ok(t)
    \/ \E t \in Threads : t_call_fail(t)
    \/ \E t \in Threads : t_retry(t)
    \/ tick

SpecThreads == Init /\ [][NextThreads]_vars

---------------------------------------------------------------------------
(* The claims.                                                             *)

\* classify_and_plan returned a plan to execute (no exception of the
\* completion call left it).
Planned ==
    \/ pc \in {"loop", "done"}
    \/ pc = "raised" /\ exc \in {"TypeError", "ToolError"}

\* C1: whenever the plan requires confirmation (confirm_required is true or
\* the intent is structural_change), no confirm_token was given and dry_run
\* is false, execute has returned status awaiting_confirmation with the plan
\* attached, and no tool was invoked and no step outcome recorded.
C1_AwaitingConfirmation ==
    ( /\ Planned
      /\ confirm_token = ""
      /\ ~dry_run
      /\ \/ Get(plan, "confirm_required", FALSE)
         \/ Get(plan, "intent", "analytics") = "structural_change" )
    => ( /\ pc = "done"
         /\ ret.status = "awaiting_confirmation"
         /\ ret.plan = plan
         /\ invoked = <<>>
         /\ results = <<>> )

\* C1 happens: a structural_change plan with a mutating step and
\* confirm_required false was stopped at the gate.
C1_Witness ==
    /\ pc = "done"
    /\ ret.status = "awaiting_confirmation"
    /\ Get(plan, "intent", "analytics") = "structural_change"
    /\ ~Get(plan, "confirm_required", FALSE)
    /\ Len(plan.steps) > 0
    /\ plan.steps[1].tool \in MutatingTools

\* C2 (as claimed): in a dry run every plan runs to status completed, with
\* one outcome per plan step: a result of an invoked tool for a read-only
\* step, a skipped record for any other step; only read-only tools are
\* invoked.
C2_DryRunCompletes ==
    (dry_run /\ Planned /\ pc # "loop")
    => ( /\ pc = "done"
         /\ ret.status = "completed"
         /\ Len(ret.results) = Len(plan.steps)
         /\ \A i \in 1..Len(plan.steps) :
                IF plan.steps[i].tool \in READ_ONLY_TOOLS
                THEN /\ "result" \in DOMAIN ret.results[i]
                     /\ \E j \in 1..Len(invoked) : invoked[j].tool = plan.steps[i].tool
                ELSE ret.results[i] = [step |-> i, tool |-> plan.steps[i].tool,
                                       dry_run |-> TRUE, args |-> plan.steps[i].args]
         /\ \A j \in 1..Len(invoked) : invoked[j].tool \in READ_ONLY_TOOLS )

\* C3 (as claimed): a plan attached to a result whose intent is
\* structural_change has its confirm_required field true.
C3_ConfirmRequiredForced ==
    ( /\ ret.status # "none"
      /\ Get(ret.plan, "intent", "analytics") = "structural_change" )
    => Get(ret.plan, "confirm_required", FALSE)

\* C4 (as claimed): when the completion call failed with a backend error,
\* execute still returns status completed, with the fallback plan.
C4_BackendFailureFallsBack ==
    (pc \in {"done", "raised"} /\ cpc = "raised" /\ cexc \in CallErrors)
    => ( /\ pc = "done"
         /\ ret.status = "completed"
         /\ ret.plan = FallbackPlan(today) )

\* The reply is not JSON, no object, has no "steps", has steps null, or has
\* a step object whose args is no mapping.
C5_BadReply ==
    \/ reply.kind \in {"notjson", "nonobject"}
    \/ /\ reply.kind = "object"
       /\ \/ "steps" \notin DOMAIN reply.obj
          \/ reply.obj.steps.t = "null"
          \/ \E i \in 1..Len(reply.obj.steps.v) :
                /\ reply.obj.steps.v[i].t = "dict"
                /\ "args" \in DOMAIN reply.obj.steps.v[i].d
                /\ reply.obj.steps.v[i].d.args.k # "map"

\* C5 (as claimed): for every such reply classify_and_plan returns exactly
\* the fallback plan.
C5_BadReplyFallsBack ==
    (Planned /\ cpc = "returned" /\ C5_BadReply) => plan = FallbackPlan(today)

\* C6 (as claimed): the plan attached to a result has at most 8 steps, and at
\* most 8 tools are dispatched per Command.
C6_AtMostEightSteps ==
    /\ ret.status # "none" => Len(ret.plan.steps) <= 8
    /\ Len(invoked) <= 8

\* C7 (as claimed): every step of a plan names a tool of the catalog.
C7_ToolsRecognized ==
    Planned => \A i \in 1..Len(plan.steps) : plan.steps[i].tool \in DispatchTools

\* The plan is the reply of the model, normalized (the replies drawn here
\* carry no "risks", the fast-path and fallback plans do).
C7_FromReply ==
    /\ Planned
    /\ cpc = "returned"
    /\ "risks" \notin DOMAIN plan
    /\ reply.obj.steps.t = "list"

\* C7 (amended): every step of a plan, and every step executed, has a tool
\* that is present and non-empty; of the steps of a reply exactly those that
\* are objects with a non-empty tool are in the plan.  The name need not be
\* one of the catalog.
C7_ToolsNonEmpty ==
    /\ Planned =>
         /\ \A i \in 1..Len(plan.steps) : plan.steps[i].tool # ""
         /\ \A i \in 1..Len(steps) : steps[i].tool # ""
         /\ \A i \in 1..Len(invoked) : invoked[i].tool # ""
    /\ C7_FromReply =>
         Len(plan.steps) =
            Cardinality({i \in 1..Len(reply.obj.steps.v) :
                           /\ reply.obj.steps.v[i].t = "dict"
                           /\ "tool" \in DOMAIN reply.obj.steps.v[i].d
                           /\ reply.obj.steps.v[i].d.tool # ""})

\* C7 happens: of two steps of a reply the one without a tool was dropped, and
\* the one naming a tool outside the catalog was executed.
C7_Witness ==
    /\ C7_FromReply
    /\ pc = "done"
    /\ ret.status = "completed"
    /\ Len(reply.obj.steps.v) = 2
    /\ Len(plan.steps) = 1
    /\ plan.steps[1].tool \notin DispatchTools
    /\ Len(ret.results) = 1

\* The branch of _fastpath a command text takes, as the claim words it.
C8_By(cmd) ==
    IF BestMonthRegex(cmd) THEN "month"
    ELSE IF HasPhrase(cmd, <<"top", "customers">>) THEN "customer"
    ELSE IF HasPhrase(cmd, <<"top", "items">>) \/ HasPhrase(cmd, <<"best", "sellers">>)
    THEN "item"
    ELSE "none"

\* from the first day of the month 11 months before today's, to today
C8_TrailingYear(f, t) ==
    /\ t = today
    /\ f[3] = 1
    /\ f[2] \in 1..12
    /\ 12 * f[1] + f[2] = 12 * today[1] + today[2] - 11

C8_OneSalesStep(by) ==
    /\ Len(plan.steps) = 1
    /\ plan.steps[1].tool = "get_sales_stats"
    /\ plan.steps[1].args.k = "map"
    /\ DOMAIN plan.steps[1].args.m = {"by", "from_date", "to_date"}
    /\ plan.steps[1].args.m.by = by
    /\ C8_TrailingYear(plan.steps[1].args.m.from_date, plan.steps[1].args.m.to_date)
    /\ plan.confirm_required = FALSE
    /\ llm_calls = 0
    /\ backend_calls = 0

\* C8 (as claimed): for every command that matches a fast-path phrasing the
\* plan is one get_sales_stats step by month over the trailing 12 months,
\* confirm_required false, and complete is not called.
C8_FastPathByMonth ==
    (pc # "idle" /\ C8_By(command_text) # "none") => C8_OneSalesStep("month")

\* C8 (amended): the same, with by = month for the best-selling-month
\* phrasings, by = customer for "top customers" and by = item for "top items"
\* or "best sellers".
C8_FastPathPlan ==
    (pc # "idle" /\ C8_By(command_text) # "none")
    => C8_OneSalesStep(C8_By(command_text))

\* C8 happens: "top customers" was planned by customer, and executed, without
\* a call of complete.
C8_Witness ==
    /\ pc = "done"
    /\ ret.status = "completed"
    /\ HasPhrase(command_text, <<"top", "customers">>)
    /\ C8_OneSalesStep("customer")
    /\ Len(invoked) = 1

\* Failures of window w that are less than 90 seconds old at time t.
C9_InWindow(w, t) == {i \in 1..Len(w) : t - w[i] < 90}

\* C9 (as claimed): once the window holds 3 failures recorded within 90
\* seconds, the last two within 30 seconds of each other, a new complete
\* call does not get past the circuit check.
C9_TripOnBurst ==
    ~ ( /\ cpc = "call"
        /\ attempt = 1
        /\ Len(fail_window) >= 3
        /\ fail_window[Len(fail_window)] - fail_window[Len(fail_window) - 1] < 30
        /\ fail_window[Len(fail_window)] - fail_window[Len(fail_window) - 2] < 90 )

\* C9 (amended): a circuit check made when at least 3 recorded failures are
\* less than 90 seconds old and the most recent one is less than 30 seconds
\* old raises CircuitBreaker: no request is sent and no retry follows.
C9_TripWhenRecent ==
    [][ ( /\ cpc = "check"
          /\ Cardinality(C9_InWindow(fail_window, now)) >= 3
          /\ now - fail_window[Len(fail_window)] < 30 )
        => ( /\ cpc' = "raised"
             /\ cexc' = "CircuitBreaker"
             /\ backend_calls' = backend_calls
             /\ attempt' = attempt
             /\ now' = now ) ]_vars

\* C9 happens: a complete call was rejected at its first attempt, before any
\* request, by 3 failures of an earlier call.
C9_Witness ==
    /\ cpc = "raised"
    /\ cexc = "CircuitBreaker"
    /\ attempt = 1
    /\ backend_calls = 0
    /\ completes >= 2
    /\ Len(fail_window) >= 3

\* C10: on a client whose circuit has opened, a circuit check made more than
\* 90 seconds after the last recorded failure passes, and the request is
\* sent; no check rejects a call unless 3 failures are less than 90 seconds
\* old, and the window a check leaves holds no failure 90 seconds old or more.
C10_RecoversAfterWindow ==
    [][ cpc = "check"
        => ( /\ ( /\ tripped
                  /\ \A i \in 1..Len(fail_window) : now - fail_window[i] > 90 )
                => cpc' = "call"
             /\ (cpc' = "raised")
                => Cardinality(C9_InWindow(fail_window, now)) >= 3
             /\ \A i \in 1..Len(fail_window') : now - fail_window'[i] < 90 ) ]_vars

\* C10 happens: the circuit opened, more than 90 seconds passed without a
\* failure, and the next call got past the check and sent its request.
C10_Witness ==
    /\ tripped
    /\ cpc = "returned"
    /\ backend_calls = 1
    /\ fail_window = <<>>
    /\ completes >= 3

\* C11 (as claimed): a complete call that passed its first circuit check and
\* whose requests all failed with a connectivity or rate-limit error ends
\* with that error after exactly 3 requests, never more and never fewer,
\* whatever the window held when the call began; a request that succeeds
\* ends the call, and an error of another kind ends it at once.
C11_RetryBudget ==
    /\ backend_calls <= 3
    /\ ( /\ cpc = "raised"
         /\ backend_calls >= 1
         /\ cexc \in {"APIConnectionError", "RateLimitError", "CircuitBreaker"} )
       => (backend_calls = 3 /\ cexc \in {"APIConnectionError", "RateLimitError"})
    /\ cpc = "returned" => backend_calls = attempt
    /\ (cpc = "raised" /\ cexc \in {"APIStatusError", "Exception"})
       => backend_calls = attempt

\* C12 (as claimed): a timestamp is added to the failure window only by the
\* failure that ends a complete call; a failed attempt that is retried adds
\* nothing.
C12_RecordOnFinalFailure ==
    [][ (cpc = "call" /\ fail_window' # fail_window) => cpc' = "raised" ]_vars

\* How often x occurs in sequence w.
C13_Count(w, x) == Cardinality({i \in 1..Len(w) : w[i] = x})

\* C13 (as claimed): under every interleaving of complete calls of several
\* threads on one client, the window holds every failure that was recorded
\* in the trailing 90 seconds.
C13_NoFailureLost ==
    \A i \in 1..Len(recorded) :
        now - recorded[i] < 90
        => C13_Count(fail_window, recorded[i]) >= C13_Count(recorded, recorded[i])

\* C14 (as claimed): the failure window is shared by the Commands of the
\* process: after 3 Commands that a backend failure ended, however closely
\* they follow one another, the planner request of the next Command is
\* rejected by the open circuit and never sent to the backend.
C14_BurstTripsNext ==
    (failed_cmds >= 3 /\ pc = "planning")
    => (cpc \in {"check", "raised"} /\ backend_calls = 0)

\* C15 (as claimed): an error raised by a tool call of a step (a tool that
\* raises, or arguments the call rejects) does not leave execute: once the
\* plan passed the gate, execute raises nothing, and what it returns is a
\* completed result with one outcome per step executed.
C15_ToolErrorEmbedded ==
    /\ (Planned /\ ~GateRaises(plan)) => pc # "raised"
    /\ (pc = "done" /\ ret.status = "completed") => Len(ret.results) = Len(steps)

\* The loop is at a step whose tool is none of the tools execute dispatches.
C16_AtUnknownTool ==
    /\ pc = "loop"
    /\ idx <= Len(steps)
    /\ steps[idx].tool \notin
         {"create_doctype", "update_doctype", "create_workflow",
          "create_query_report", "create_script_report", "run_report", "run_sql",
          "get_sales_stats", "get_purchase_stats", "get_inventory_snapshot",
          "create_task", "enqueue_background_job"}

C16_ErrorOutcome ==
    [step |-> idx, tool |-> steps[idx].tool,
     result |-> [error |-> <<"unknown tool", steps[idx].tool>>]]

C16_SkippedOutcome ==
    [step |-> idx, tool |-> steps[idx].tool, dry_run |-> TRUE,
     args |-> steps[idx].args]

\* C16 (as claimed): whenever execution proceeds, with or without dry_run, a
\* step with an unknown tool is recorded as {step, tool, result: {error:
\* "unknown tool <name>"}} and the loop goes on to the next step.
C16_UnknownToolError ==
    [][ C16_AtUnknownTool
        => ( /\ results' = Append(results, C16_ErrorOutcome)
             /\ idx' = idx + 1
             /\ pc' = "loop" ) ]_vars

\* C16 (amended): a step with an unknown tool is recorded as the error
\* outcome when dry_run is false, and as the skipped outcome {step, tool,
\* dry_run: true, args} when dry_run is true; either way no tool is invoked
\* for it and the loop goes on to the next step.
C16_UnknownToolOutcome ==
    [][ C16_AtUnknownTool
        => ( /\ results' = Append(results, IF dry_run THEN C16_SkippedOutcome
                                                      ELSE C16_ErrorOutcome)
             /\ invoked' = invoked
             /\ idx' = idx + 1
             /\ pc' = "loop" ) ]_vars

\* C16 happens: a plan of two steps ran to the end without dry_run, its
\* first step named an unknown tool and got the error outcome, and its
\* second step was processed after it.
C16_Witness ==
    /\ pc = "done"
    /\ ret.status = "completed"
    /\ ~dry_run
    /\ Len(ret.results) = 2
    /\ ret.results[1] = [step |-> 1, tool |-> "export_pdf",
                         result |-> [error |-> <<"unknown tool", "export_pdf">>]]
    /\ ret.results[2].step = 2

\* C17 (as claimed): every call of a mutating tool that execute makes
\* (create_doctype, update_doctype, create_workflow, create_query_report,
\* create_script_report, create_task, enqueue_background_job) is passed the
\* idempotency token of the Command, a value minted for this Command only.
C17_TokenToEveryMutatingTool ==
    /\ \A i \in 1..Len(invoked) :
          invoked[i].tool \in
             {"create_doctype", "update_doctype", "create_workflow",
              "create_query_report", "create_script_report", "create_task",
              "enqueue_background_job"}
          => ( /\ "idempotency_key" \in DOMAIN invoked[i].kwargs
               /\ invoked[i].kwargs.idempotency_key = idem )
    /\ pc \in {"planning", "loop", "done"} => (idem = minted /\ idem # corr_id)

\* C18: the steps are dispatched one at a time in plan order.  When the loop
\* is at step k the outcomes of steps 1..k-1, and no others, are recorded; a
\* tool call made there is the call of step k's tool; the outcome recorded
\* there has step = k and the tool of the k-th plan step; and a completed
\* result has one outcome per step of the plan's first 8, the i-th with
\* step = i and the tool of the i-th plan step.
C18_InPlanOrder ==
    [][ /\ pc = "loop" => Len(results) = idx - 1
        /\ (pc = "loop" /\ invoked' # invoked)
           => ( /\ Len(invoked') = Len(invoked) + 1
                /\ SubSeq(invoked', 1, Len(invoked)) = invoked
                /\ invoked'[Len(invoked')].tool = plan.steps[idx].tool )
        /\ (pc = "loop" /\ results' # results)
           => ( /\ Len(results') = idx
                /\ SubSeq(results', 1, idx - 1) = results
                /\ results'[idx].step = idx
                /\ results'[idx].tool = plan.steps[idx].tool
                /\ idx' = idx + 1 )
        /\ (pc = "done" /\ ret.status = "completed")
           => ( /\ Len(ret.results) = IF Len(plan.steps) > 8 THEN 8 ELSE Len(plan.steps)
                /\ \A i \in 1..Len(ret.results) :
                      /\ ret.results[i].step = i
                      /\ ret.results[i].tool = plan.steps[i].tool ) ]_vars

\* C18 happens: a plan of two steps with different tools completed, the
\* first executed and the second skipped by the dry run, with outcomes 1, 2.
C18_Witness ==
    /\ pc = "done"
    /\ ret.status = "completed"
    /\ Len(plan.steps) = 2
    /\ plan.steps[1].tool # plan.steps[2].tool
    /\ Len(ret.results) = 2
    /\ "result" \in DOMAIN ret.results[1]
    /\ "dry_run" \in DOMAIN ret.results[2]
    /\ Len(invoked) = 1

C20_WellFormedResult ==
    (pc = "done" /\ caller # NoCaller)
    => ( /\ ret.status \in {"awaiting_confirmation", "completed"}
         /\ "plan" \in DOMAIN ret
         /\ "correlation_id" \in DOMAIN ret
         /\ ret.correlation_id = minted - 1 )

\* C26: _normalize_steps fills by=month and the trailing-12-months window on
\* get_sales_stats and get_purchase_stats steps for the arguments the model
\* omitted only: every argument the model supplied keeps its value, the
\* arguments of a step of another tool are the ones supplied, the steps are
\* as many and in the same order as the ones that passed the filter, and
\* normalizing the normalized steps again changes nothing.
C26_FillsOnlyOmitted ==
    C7_FromReply =>
      LET kept == Kept(reply.obj.steps)
      IN  /\ Len(plan.steps) = Len(kept)
          /\ \A i \in 1..Len(kept) :
               LET given == StepArgs(kept[i].d)
                   out == plan.steps[i]
               IN  /\ out.tool = kept[i].d.tool
                   /\ IF out.tool \in {"get_sales_stats", "get_purchase_stats"}
                      THEN /\ out.args.k = "map"
                           /\ DOMAIN out.args.m =
                                (DOMAIN given.m) \cup {"by", "from_date", "to_date"}
                           /\ \A k \in DOMAIN given.m : out.args.m[k] = given.m[k]
                           /\ "by" \notin DOMAIN given.m => out.args.m.by = "month"
                           /\ "from_date" \notin DOMAIN given.m
                                => /\ out.args.m.from_date[3] = 1
                                   /\ out.args.m.from_date[2] \in 1..12
                                   /\ 12 * out.args.m.from_date[1] + out.args.m.from_date[2]
                                        = 12 * today[1] + today[2] - 11
                           /\ "to_date" \notin DOMAIN given.m => out.args.m.to_date = today
                      ELSE out.args = given
          /\ normalize_steps([i \in 1..Len(plan.steps) |-> JObj(plan.steps[i])], today)
               = plan.steps

\* C26 happens: the model supplied by=supplier on a purchase step and nothing
\* else; the plan keeps by=supplier, has the window filled in, and the
\* create_task step after it is as the model wrote it.
C26_Witness ==
    /\ C7_FromReply
    /\ Len(plan.steps) = 2
    /\ plan.steps[1].tool = "get_purchase_stats"
    /\ plan.steps[1].args.m.by = "supplier"
    /\ plan.steps[1].args.m.to_date = today
    /\ plan.steps[2] = [tool |-> "create_task", args |-> ArgsMap([subject |-> "s"])]

\* The gate finds nothing to confirm in the plan's fields: confirm_required
\* is false or absent, and the intent is a string other than
\* structural_change.
C27_FieldsAskNothing ==
    /\ Planned
    /\ ~Get(plan, "confirm_required", FALSE)
    /\ Get(plan, "intent", "analytics") \notin {"structural_change", UnhashableIntent}

\* C27: the gate reads confirm_required and intent only, never the tools of
\* the steps.  With dry_run false and an empty confirm_token, a plan whose
\* fields ask for no confirmation is never answered awaiting_confirmation,
\* whatever its steps: a mutating step the loop reaches, with a mapping for
\* args, is invoked there, and when execute completes every such step among
\* the first 8 has been invoked.
C27_GateIgnoresSteps ==
    [][ (C27_FieldsAskNothing /\ ~dry_run /\ confirm_token = "")
        => ( /\ ret.status # "awaiting_confirmation"
             /\ ( /\ pc = "loop"
                  /\ idx <= Len(steps)
                  /\ steps[idx].tool \in MutatingTools
                  /\ steps[idx].args.k = "map" )
                => ( /\ Len(invoked') = Len(invoked) + 1
                     /\ invoked'[Len(invoked')].tool = steps[idx].tool )
             /\ (pc = "done")
                => \A i \in 1..Len(steps) :
                     (steps[i].tool \in MutatingTools /\ steps[i].args.k = "map")
                     => \E j \in 1..Len(invoked) : invoked[j].tool = steps[i].tool ) ]_vars

\* C27 happens: a plan without confirm_required and without intent, whose
\* only step is create_task, was executed with dry_run false and no token,
\* and create_task was invoked.
C27_Witness ==
    /\ pc = "done"
    /\ ret.status = "completed"
    /\ ~dry_run
    /\ confirm_token = ""
    /\ DOMAIN plan = {"steps"}
    /\ Len(plan.steps) = 1
    /\ plan.steps[1].tool = "create_task"
    /\ Len(invoked) = 1
    /\ invoked[1].tool = "create_task"

\* C28: confirm_token is only tested for being empty.  Once execute has a
\* plan and the caller's confirm_token is non-empty, the gate decides the
\* same for every non-empty token, namely to proceed: the result is never
\* awaiting_confirmation, also for a plan that requires confirmation, and
\* no tool is called with a confirm_token argument.
C28_AnyTokenConfirms ==
    (Planned /\ confirm_token # "")
    => ( /\ ret.status # "awaiting_confirmation"
         /\ \A t \in ApiTokens \ {""} :
              AwaitsConfirmation(plan, dry_run, t)
                = AwaitsConfirmation(plan, dry_run, confirm_token)
         /\ \A t \in ApiTokens \ {""} : ~AwaitsConfirmation(plan, dry_run, t)
         /\ \A i \in 1..Len(invoked) : "confirm_token" \notin DOMAIN invoked[i].kwargs )

\* C28 happens: a structural_change plan was executed with dry_run false and
\* the token "no", and its create_task step was invoked.
C28_Witness ==
    /\ pc = "done"
    /\ ret.status = "completed"
    /\ ConfirmNeeded(plan)
    /\ ~dry_run
    /\ caller.confirm_token = "no"
    /\ confirm_token = "no"
    /\ Len(invoked) = 1
    /\ invoked[1].tool = "create_task"

\* The failures of the window that are less than 90 seconds old.
C29_InWindow ==
    Cardinality({i \in 1..Len(fail_window) : now - fail_window[i] < 90})

\* C29: a circuit check raises the circuit-open error exactly when at least
\* 3 failures lie in the trailing 90 seconds and the most recent failure is
\* less than 30 seconds old; so a check made 30 seconds or more after the
\* most recent failure passes, however many failures the window holds.
C29_OpenIffRecentBurst ==
    [][ cpc = "check"
        => ( /\ (cpc' = "raised" /\ cexc' = "CircuitBreaker")
                  <=> ( /\ C29_InWindow >= 3
                        /\ now - fail_window[Len(fail_window)] < 30 )
             /\ ( /\ fail_window # <<>>
                  /\ now - fail_window[Len(fail_window)] >= 30 )
                => cpc' = "call" ) ]_vars

\* C29 happens: the client had raised the circuit-open error; a call made
\* 30 seconds or more after its last failure passed the check with 3 or more
\* failures still in the window.
C29_Witness ==
    /\ tripped
    /\ cpc = "call"
    /\ attempt = 1
    /\ C29_InWindow >= 3
    /\ now - fail_window[Len(fail_window)] >= 30

\* C30: execute makes a new client, with an empty failure window, for each
\* Command and calls complete on it once; so while execute is in that call
\* every circuit check, of at most 3 attempts, sees fewer than 3 failures in
\* the window, the circuit-open error is never raised, and it is never the
\* exception that leaves execute.
C30_NeverOpenInExecute ==
    /\ pc = "planning"
       => ( /\ llm_calls = 1
            /\ attempt <= 3
            /\ cpc = "check" => Len(fail_window) < 3
            /\ Len(fail_window) <= attempt
            /\ ~tripped
            /\ cexc # "CircuitBreaker" )
    /\ pc = "raised" => exc # "CircuitBreaker"

\* C30 happens: the third attempt of a Command's complete call passed its
\* circuit check with the two failures of the first two attempts in the
\* window.
C30_Witness ==
    /\ pc = "planning"
    /\ cpc = "call"
    /\ attempt = 3
    /\ Len(fail_window) = 2
    /\ backend_calls = 2

\* The action the priority order of the claim gives a query: docs word
\* first, then "run report", then any inventory keyword, then any purchase
\* keyword, otherwise sales.
C21_ByPriority(cmd) ==
    IF Len(cmd) > 0 /\ cmd[1] \in {"how", "what", "why", "when", "where", "explain",
                                   "guide", "doc", "docs"}
    THEN "rag"
    ELSE IF \E i \in 1..(Len(cmd) - 1) : cmd[i] = "run" /\ cmd[i + 1] = "report"
    THEN "run_report"
    ELSE IF \E i \in 1..Len(cmd) :
              cmd[i] \in {"stock", "inventory", "warehouse", "qty", "available"}
    THEN "inventory_snapshot"
    ELSE IF \E i \in 1..Len(cmd) :
              cmd[i] \in {"buy", "bought", "vendor", "supplier", "po", "purchase",
                          "spend", "ap"}
    THEN "purchase_stats"
    ELSE "sales_stats"

\* C21 (as claimed): route chooses the first matching rule in the order
\* docs word -> rag, "run report" -> run_report, inventory keyword ->
\* inventory_snapshot, purchase keyword -> purchase_stats, otherwise
\* sales_stats; so a query with an inventory and a purchase keyword, no docs
\* word and no "run report", goes to inventory_snapshot.
C21_RoutePriority ==
    routed.kind # "none" => routed.route.action = C21_ByPriority(command_text)

\* The days of the year y before its month m.
RECURSIVE C22_DaysBefore(_, _)
C22_DaysBefore(y, m) ==
    IF m = 1 THEN 0 ELSE DaysInMonth(y, m - 1) + C22_DaysBefore(y, m - 1)

\* The number of a day, counted from the start of the calendar.
C22_DayNumber(d) ==
    365 * (d[1] - 1) + ((d[1] - 1) \div 4) - ((d[1] - 1) \div 100)
      + ((d[1] - 1) \div 400) + C22_DaysBefore(d[1], d[2]) + d[3]

\* The zero-row widening, for a widened window <<f, t>> with Starts(f, t): an
\* aggregation route makes 1 or 2 getter calls, the first over the routed
\* window; a first query without rows is followed by exactly one more, with
\* the same grouping and to_date and a from_date that Starts it, after which
\* execute_routed returns, also when that one has no rows; a first query
\* with rows is followed by none; and no other route is widened.
C22_Widening(Starts(_, _)) ==
    routed.kind # "none" =>
      LET cs == routed.calls
          r == routed.route
      IN  IF r.action \in {"sales_stats", "purchase_stats"}
          THEN /\ Len(cs) \in {1, 2}
               /\ cs[1].from_date = r.args.from_date
               /\ cs[1].to_date = r.args.to_date
               /\ (~cs[1].raised /\ cs[1].rows = <<>>)
                    => ( /\ Len(cs) = 2
                         /\ cs[2].tool = cs[1].tool
                         /\ cs[2].by = cs[1].by
                         /\ cs[2].to_date = r.args.to_date
                         /\ Starts(cs[2].from_date, r.args.to_date)
                         /\ ~cs[2].raised => routed.kind = "dict" /\ routed.rows = cs[2].rows )
               /\ (cs[1].raised \/ cs[1].rows # <<>>) => Len(cs) = 1
          ELSE Len(cs) <= 1

\* f is the same day of the month as t, 3 years before.
C22_ThreeYearsBefore(f, t) == f = <<t[1] - 3, t[2], t[3]>>

\* f is 3 * 365 days before t.
C22_Days1095Before(f, t) == C22_DayNumber(t) - C22_DayNumber(f) = 1095

C23_Pattern(cmd) ==
    LET word(w) == \E i \in 1..Len(cmd) : cmd[i] = w
        two(a, b) == \E i \in 1..(Len(cmd) - 1) : cmd[i] = a /\ cmd[i + 1] = b
        three(a, b, c) ==
            \E i \in 1..(Len(cmd) - 2) : cmd[i] = a /\ cmd[i + 1] = b /\ cmd[i + 2] = c
    IN  IF word("ytd") \/ two("this", "year") \/ three("year", "to", "date")
        THEN "year-to-date"
        ELSE IF three("last", "12", "months") \/ word("l12m") THEN "last-12-months"
        ELSE IF three("last", "30", "days") THEN "last-30-days"
        ELSE IF two("this", "month") \/ word("mtd") \/ three("month", "to", "date")
        THEN "month-to-date"
        ELSE IF two("last", "month") THEN "last-month"
        ELSE IF word("today") THEN "today"
        ELSE IF word("yesterday") THEN "yesterday"
        ELSE "default"

\* a is not after b
C23_NotAfter(a, b) ==
    \/ a[1] < b[1]
    \/ a[1] = b[1] /\ a[2] < b[2]
    \/ a[1] = b[1] /\ a[2] = b[2] /\ a[3] <= b[3]

\* The window <<f, t>> is the one the pattern p names, on the day day.
C23_IsWindow(p, f, t, day) ==
    LET py == IF day[2] = 1 THEN day[1] - 1 ELSE day[1]
        pm == IF day[2] = 1 THEN 12 ELSE day[2] - 1
    IN  CASE p = "year-to-date" -> f = <<day[1], 1, 1>> /\ t = day
          [] p = "last-12-months" ->
               t = day /\ C22_DayNumber(day) - C22_DayNumber(f) = 365
          [] p = "last-30-days" ->
               t = day /\ C22_DayNumber(day) - C22_DayNumber(f) = 30
          [] p = "month-to-date" -> f = <<day[1], day[2], 1>> /\ t = day
          [] p = "last-month" ->
               f = <<py, pm, 1>> /\ t = <<py, pm, DaysInMonth(py, pm)>>
          [] p = "today" -> f = day /\ t = day
          [] p = "yesterday" ->
               f = t /\ C22_DayNumber(day) - C22_DayNumber(f) = 1
          [] p = "default" ->
               t = day /\ C22_DayNumber(day) - C22_DayNumber(f) = 365

\* The route carries a date window.
C23_HasWindow ==
    /\ routed.kind # "none"
    /\ routed.action \in {"sales_stats", "purchase_stats", "run_report"}

C23_From ==
    IF routed.action = "run_report"
    THEN routed.route.filters.from_date
    ELSE routed.route.args.from_date

C23_To ==
    IF routed.action = "run_report"
    THEN routed.route.filters.to_date
    ELSE routed.route.args.to_date

\* C23: the date window of a route is the one of the first pattern that
\* matches, in the order year-to-date, last-12-months, last-30-days,
\* month-to-date, last-month, today, yesterday, and the trailing 365 days
\* ending today when none does; "today" gives (today, today); "last month"
\* gives the first and the last day of the previous calendar month
\* (2024-02-01 to 2024-02-29 on 2024-03-15, December of the year before in
\* January); and always from_date <= to_date <= today.
C23_FirstPatternWindow ==
    C23_HasWindow =>
      /\ C23_IsWindow(C23_Pattern(command_text), C23_From, C23_To, today)
      /\ C23_NotAfter(C23_From, C23_To)
      /\ C23_NotAfter(C23_To, today)
      /\ (C23_Pattern(command_text) = "last-month" /\ today = <<2024, 3, 15>>)
           => (C23_From = <<2024, 2, 1>> /\ C23_To = <<2024, 2, 29>>)
      /\ (C23_Pattern(command_text) = "last-month" /\ today = <<2025, 1, 10>>)
           => (C23_From = <<2024, 12, 1>> /\ C23_To = <<2024, 12, 31>>)

\* C23 happens: on 2024-03-15 a query with "last month" and then "today"
\* was routed with the window of February 2024.
C23_Witness ==
    /\ C23_HasWindow
    /\ today = <<2024, 3, 15>>
    /\ command_text = <<"last", "month", "today">>
    /\ C23_From = <<2024, 2, 1>>
    /\ C23_To = <<2024, 2, 29>>

\* The words that are integers.
C24_Integers == {"0", "12", "250", "1000"}

\* The places where "top" is followed by an integer of at most digits digits.
C24_TopThenInteger(cmd, digits) ==
    {i \in 1..(Len(cmd) - 1) :
        /\ cmd[i] = "top"
        /\ cmd[i + 1] \in C24_Integers
        /\ IntValue[cmd[i + 1]] < 10^digits}

C24_Clamped(v) == IF v < 1 THEN 1 ELSE IF v > 200 THEN 200 ELSE v

\* Top-N detection over the integers of at most digits digits: where "top"
\* is followed by one, the value detected is the first such integer clamped
\* into [1, 200]; where it is followed by none, the result is absent; and a
\* value returned is in [1, 200].
C24_TopN(digits) ==
    (routed.kind # "none" /\ routed.action \in {"sales_stats", "purchase_stats"})
    => LET found == C24_TopThenInteger(command_text, digits)
           top_n == routed.route.args.top_n
       IN  /\ IF found = {}
              THEN top_n.k = "none"
              ELSE LET i == CHOOSE x \in found : \A y \in found : x <= y
                   IN  /\ top_n.k = "int"
                       /\ top_n.n = C24_Clamped(IntValue[command_text[i + 1]])
           /\ top_n.k = "int" => top_n.n \in 1..200

\* C24 (as claimed): any integer after "top" is detected and clamped.
C24_AnyIntegerClamped == C24_TopN(4)

\* C24 (amended): an integer of one to three digits after "top" is detected
\* and clamped into [1, 200] (250 -> 200, 0 -> 1); an integer of more digits
\* is no match, and without a match the result is absent.
C24_ThreeDigitIntegerClamped == C24_TopN(3)

\* C24 happens: "top 1000" was routed without a top-N value.
C24_Witness ==
    /\ routed.kind # "none"
    /\ routed.action = "sales_stats"
    /\ command_text = <<"top", "1000">>
    /\ routed.route.args.top_n.k = "none"

\* C25: while the fragment sequence a streaming complete call returned is
\* being consumed, a step of the consumer delivers the next fragment, ends
\* the sequence, or raises the backend's failure to the consumer; none of
\* them sends the request again, waits for a retry, records a failure or
\* leaves complete's result state, and the fragments delivered stay as they
\* are, each delivered once.  After a failure nothing more is delivered.
C25_MidStreamFailurePropagates ==
    [][ (reply.kind = "generator" /\ completes' = completes)
        => ( /\ cpc' = "returned"
             /\ attempt' = attempt
             /\ backend_calls' = backend_calls
             /\ fail_window' = fail_window
             /\ reply'.kind = "generator"
             /\ \A i \in 1..Len(reply'.sent) : reply'.sent[i] = i
             /\ \/ reply'.sent = reply.sent
                \/ /\ reply.state = "open"
                   /\ reply'.state = "open"
                   /\ reply'.sent = Append(reply.sent, Len(reply.sent) + 1)
             /\ reply.state \in {"failed", "ended"} => reply' = reply
             /\ (reply.state = "open" /\ reply'.state = "failed")
                  => reply'.exc \in {"APIConnectionError", "RateLimitError",
                                     "APIStatusError", "Exception"} ) ]_vars

\* C25 happens: the stream of a request that was sent once failed with a
\* connection error after a fragment had been delivered.
C25_Witness ==
    /\ reply.kind = "generator"
    /\ reply.state = "failed"
    /\ reply.exc = "APIConnectionError"
    /\ reply.sent = <<1>>
    /\ cpc = "returned"
    /\ attempt = 1
    /\ backend_calls = 1
    /\ fail_window = <<>>

====
